---- MODULE Spec2Model ----
(***************************************************************************)
(* Model of hibernate3to4changelogGen.py: the constraint diff pipeline     *)
(*   remove_dropped_adds -> merge_master_adds_and_new_adds ->              *)
(*   adds_to_add_drop_constraints -> add_and_removes_to_changelog_xml      *)
(* A Python dict is a TLA+ function from its keys (strings) to its values; *)
(* a Python list is a sequence; d['k'] on a dict without key k raises      *)
(* KeyError, a failed assert raises AssertionError, and an uncaught        *)
(* exception ends the script before anything is written to the output.     *)
(***************************************************************************)
EXTENDS Integers, Sequences, FiniteSets, TLC

VARIABLES
    entry,            \* the function the run entered through ("main": the script)
    pc,               \* the statement the run is at
    adds,             \* line 192: master additions, flattened over the imports
    drops,            \* line 193: master drops, flattened over the imports
    new_constraints,  \* line 190: additions of the branch changelog
    properties,       \* line 188: property records of the branch changelog
    change_id,        \* args.change_id
    filtered,         \* line 194
    all_adds,         \* line 198
    xml_diff,         \* line 199
    output_xml,       \* line 203
    output,           \* what has been written to args.output
    error             \* the uncaught exception that ended the run, or "none"

vars == <<entry, pc, adds, drops, new_constraints, properties, change_id,
          filtered, all_adds, xml_diff, output_xml, output, error>>

(***************************************************************************)
(* Bounds of the model                                                     *)
(***************************************************************************)
\* the script's runs: lengths of the master additions, master drops, branch
\* additions and branch properties
MaxAdds == 2
MaxDrops == 1
MaxNew == 2
MaxProps == 1
\* direct calls of one function: length of each list argument
MaxLen == 2

BSeq(S, n) == UNION {[1..k -> S] : k \in 0..n}

(***************************************************************************)
(* Input alphabets                                                         *)
(***************************************************************************)
TableNames == {"devicejpa", "gatewayjpa"}
\* columnNames is an opaque string: these two differ in white space only
ColumnNames == {"uuid, vlan", "uuid,vlan"}
ConstraintNames == {"devicejpa_uuid_key", "uk_2o0nn8nq8"}
FlagValues == {"true", "false"}

\* <addUniqueConstraint columnNames constraintName tableName/>
PlainAdditions ==
    [columnNames: ColumnNames, constraintName: ConstraintNames, tableName: TableNames]

\* ... with the deferrable, disabled and initiallyDeferred attributes present
FlaggedAdditions ==
    [columnNames: {"uuid, vlan"}, constraintName: ConstraintNames,
     tableName: {"devicejpa"}, deferrable: FlagValues, disabled: {"true"},
     initiallyDeferred: FlagValues]

\* ... lacking one of the attributes the script reads
MalformedAdditions ==
    [columnNames: {"uuid, vlan"}, constraintName: {"devicejpa_uuid_key"}]
    \cup [columnNames: {"uuid, vlan"}, tableName: {"devicejpa"}]
    \cup [constraintName: {"devicejpa_uuid_key"}, tableName: {"devicejpa"}]

\* <dropUniqueConstraint constraintName tableName/>
PlainDrops == [constraintName: ConstraintNames, tableName: TableNames]

\* ... carrying one more attribute of the element
SchemaDrops ==
    [constraintName: ConstraintNames, tableName: {"devicejpa"}, schemaName: {"public"}]

\* ... lacking one of the two attributes
MalformedDrops ==
    [constraintName: {"devicejpa_uuid_key"}] \cup [tableName: {"devicejpa"}]

\* <property name value/>
PropertyRecords == [name: {"p1", "p2"}, value: {"v"}]

ChangeIds == {"id-1"}

Required == {"tableName", "constraintName", "columnNames"}
DropRequired == {"tableName", "constraintName"}

Has(dict, key) == key \in DOMAIN dict

\* Python's `x in list`: some element equals x (dicts: same keys, same values)
InList(x, list) == \E i \in DOMAIN list : list[i] = x

(***************************************************************************)
(* to_drop_constraint_version                                              *)
(***************************************************************************)
to_drop_constraint_version_raises(dict) ==
    ~Has(dict, "constraintName") \/ ~Has(dict, "tableName")

to_drop_constraint_version(dict) ==
    [constraintName |-> dict["constraintName"], tableName |-> dict["tableName"]]

(***************************************************************************)
(* remove_dropped_adds                                                     *)
(***************************************************************************)
remove_dropped_adds_raises(additions, drop_list) ==
    \E i \in DOMAIN additions : to_drop_constraint_version_raises(additions[i])

\* a variant with a slip: the dropped additions are removed from the list while
\* it is iterated, so the element after each removed one is skipped
RECURSIVE remove_while_iterating(_, _)
remove_while_iterating(additions, drop_list) ==
    IF additions = <<>>
    THEN <<>>
    ELSE IF InList(to_drop_constraint_version(Head(additions)), drop_list)
    THEN IF Tail(additions) = <<>>
         THEN <<>>
         ELSE <<Head(Tail(additions))>>
                  \o remove_while_iterating(Tail(Tail(additions)), drop_list)
    ELSE <<Head(additions)>> \o remove_while_iterating(Tail(additions), drop_list)

remove_dropped_adds(additions, drop_list) ==
    LET keep(addition) == ~InList(to_drop_constraint_version(addition), drop_list)
    IN  SelectSeq(additions, keep)

(***************************************************************************)
(* merge_master_adds_and_new_adds                                          *)
(***************************************************************************)
\* the condition of the comprehension, evaluated left to right with
\* short-circuit `and`: a key is read only if the conjuncts before it held
merge_condition_raises(master, new) ==
    \/ ~Has(master, "tableName")
    \/ ~Has(new, "tableName")
    \/ /\ master["tableName"] = new["tableName"]
       /\ \/ ~Has(master, "columnNames")
          \/ ~Has(new, "columnNames")
          \/ /\ master["columnNames"] = new["columnNames"]
             /\ \/ ~Has(master, "constraintName")
                \/ ~Has(new, "constraintName")

\* variants with a slip: one conjunct of the condition left out
merge_condition_ignoring_table(master, new) ==
    /\ master["columnNames"] = new["columnNames"]
    /\ master["constraintName"] # new["constraintName"]

merge_condition_ignoring_columns(master, new) ==
    /\ master["tableName"] = new["tableName"]
    /\ master["constraintName"] # new["constraintName"]

merge_condition_same_name_allowed(master, new) ==
    /\ master["tableName"] = new["tableName"]
    /\ master["columnNames"] = new["columnNames"]

merge_condition(master, new) ==
    /\ master["tableName"] = new["tableName"]
    /\ master["columnNames"] = new["columnNames"]
    /\ master["constraintName"] # new["constraintName"]

\* for master in master_list for new in new_list: master is the outer loop
cross_product(master_list, new_list) ==
    [k \in 1..(Len(master_list) * Len(new_list)) |->
        <<master_list[((k - 1) \div Len(new_list)) + 1],
          new_list[((k - 1) % Len(new_list)) + 1]>>]

merge_master_adds_and_new_adds_raises(master_list, new_list) ==
    \E i \in DOMAIN master_list : \E j \in DOMAIN new_list :
        merge_condition_raises(master_list[i], new_list[j])

\* a variant with a slip: the inner loop stops at the first new addition that
\* matches, so a master is yielded at most once
merge_first_match_only(master_list, new_list) ==
    LET first_match(k) ==
            LET i == ((k - 1) \div Len(new_list)) + 1
                j == ((k - 1) % Len(new_list)) + 1
            IN  /\ merge_condition(master_list[i], new_list[j])
                /\ \A h \in 1..(j - 1) : ~merge_condition(master_list[i], new_list[h])
        product == cross_product(master_list, new_list)
        kept == {k \in DOMAIN product : first_match(k)}
        RECURSIVE pick(_)
        pick(k) == IF k > Len(product) THEN <<>>
                   ELSE (IF k \in kept THEN <<product[k]>> ELSE <<>>) \o pick(k + 1)
    IN  pick(1)

merge_master_adds_and_new_adds(master_list, new_list) ==
    LET yielded(pair) == merge_condition(pair[1], pair[2])
    IN  SelectSeq(cross_product(master_list, new_list), yielded)

(***************************************************************************)
(* adds_to_add_drop_constraints                                            *)
(***************************************************************************)
\* the exception the call ends with, "none" if it returns
adds_to_add_drop_constraints_error(masterConstraints, newConstraints) ==
    IF ~Has(masterConstraints, "columnNames") \/ ~Has(newConstraints, "columnNames")
    THEN "KeyError"
    ELSE IF masterConstraints["columnNames"] # newConstraints["columnNames"]
    THEN "AssertionError"
    ELSE IF ~Has(masterConstraints, "tableName") \/ ~Has(newConstraints, "tableName")
    THEN "KeyError"
    ELSE IF masterConstraints["tableName"] # newConstraints["tableName"]
    THEN "AssertionError"
    ELSE IF to_drop_constraint_version_raises(masterConstraints)
            \/ ~Has(newConstraints, "constraintName")
    THEN "KeyError"
    ELSE "none"

\* a variant with a slip: the flags of the master are copied when present
adds_to_add_drop_constraints_copying_flags(masterConstraints, newConstraints) ==
    LET flag(name) == IF Has(masterConstraints, name)
                      THEN masterConstraints[name] ELSE "false"
    IN  <<to_drop_constraint_version(masterConstraints),
          [columnNames |-> masterConstraints["columnNames"],
           constraintName |-> newConstraints["constraintName"],
           deferrable |-> flag("deferrable"), disabled |-> flag("disabled"),
           initiallyDeferred |-> flag("initiallyDeferred"),
           tableName |-> masterConstraints["tableName"]]>>

\* a variant with a slip: the add keeps the master's constraint name
adds_to_add_drop_constraints_master_name(masterConstraints, newConstraints) ==
    <<to_drop_constraint_version(masterConstraints),
      [columnNames |-> masterConstraints["columnNames"],
       constraintName |-> masterConstraints["constraintName"],
       deferrable |-> "false", disabled |-> "false", initiallyDeferred |-> "false",
       tableName |-> masterConstraints["tableName"]]>>

adds_to_add_drop_constraints(masterConstraints, newConstraints) ==
    <<to_drop_constraint_version(masterConstraints),
      [columnNames |-> masterConstraints["columnNames"],
       constraintName |-> newConstraints["constraintName"],
       deferrable |-> "false", disabled |-> "false", initiallyDeferred |-> "false",
       tableName |-> masterConstraints["tableName"]]>>

(***************************************************************************)
(* add_and_removes_to_changelog_xml                                        *)
(***************************************************************************)
\* an ElementTree element: ET.Element / ET.SubElement
Element(tag, attrib, text, children) ==
    [tag |-> tag, attrib |-> attrib, text |-> text, children |-> children]

EmptyDict == [key \in {} |-> ""]

\* line 142
ns ==
    [key \in {"xmlns", "xmlns:ext", "xmlns:xsi", "xsi:schemaLocation"} |->
        CASE key = "xmlns" -> "http://www.liquibase.org/xml/ns/dbchangelog"
          [] key = "xmlns:ext" -> "http://www.liquibase.org/xml/ns/dbchangelog-ext"
          [] key = "xmlns:xsi" -> "http://www.w3.org/2001/XMLSchema-instance"
          [] OTHER -> "http://www.liquibase.org/xml/ns/dbchangelog-ext http://www.liquibase.org/xml/ns/dbchangelog/dbchangelog-ext.xsd http://www.liquibase.org/xml/ns/dbchangelog http://www.liquibase.org/xml/ns/dbchangelog/dbchangelog-3.4.xsd"]

\* getpass.getuser(): the invoking user's login name
getuser == "jenkins"

\* lines 147-151 (the text without its line breaks and quoting marks)
comment_element ==
    Element("comment", EmptyDict,
            "Constraint naming convention was changed between Hibernate 3 and 4. This XML was generated using the hibernate3to4changelogGen.py file.",
            <<>>)

modify_sql_element ==
    Element("modifySql", [dbms |-> "postgresql"], "",
            <<Element("replace", [replace |-> "WITH", with |-> "WITHOUT"], "", <<>>)>>)

\* a variant with a slip: one loop for the drops, then one for the adds
constraint_elements_drops_first(add_and_removes) ==
    [k \in 1..(2 * Len(add_and_removes)) |->
        IF k <= Len(add_and_removes)
        THEN Element("dropUniqueConstraint", add_and_removes[k][1], "", <<>>)
        ELSE Element("addUniqueConstraint",
                     add_and_removes[k - Len(add_and_removes)][2], "", <<>>)]

\* for (drop, add) in add_and_removes: two SubElement calls per pair
RECURSIVE constraint_elements(_)
constraint_elements(add_and_removes) ==
    IF add_and_removes = <<>>
    THEN <<>>
    ELSE <<Element("dropUniqueConstraint", Head(add_and_removes)[1], "", <<>>),
           Element("addUniqueConstraint", Head(add_and_removes)[2], "", <<>>)>>
         \o constraint_elements(Tail(add_and_removes))

\* for prop in properties: ET.SubElement(top, 'property', prop)
property_elements(props) ==
    [i \in 1..Len(props) |-> Element("property", props[i], "", <<>>)]

add_and_removes_to_changelog_xml(add_and_removes, props, id) ==
    LET change_set ==
            Element("changeSet", [author |-> getuser, id |-> id], "",
                    <<comment_element>> \o constraint_elements(add_and_removes)
                        \o <<modify_sql_element>>)
    IN  Element("databaseChangeLog", ns, "", property_elements(props) \o <<change_set>>)

(***************************************************************************)
(* The script, lines 183-209, one action per statement that computes       *)
(***************************************************************************)
\* where a run goes after a statement: the script goes on, a direct call returns
After(next) == IF entry = "main" THEN next ELSE "returned"

\* line 194: filtered = remove_dropped_adds(adds, drops)
Filter ==
    /\ pc = "filter"
    /\ IF remove_dropped_adds_raises(adds, drops)
       THEN /\ pc' = "aborted"
            /\ error' = "KeyError"
            /\ UNCHANGED filtered
       ELSE /\ pc' = After("merge")
            /\ filtered' = remove_dropped_adds(adds, drops)
            /\ UNCHANGED error
    /\ UNCHANGED <<entry, adds, drops, new_constraints, properties, change_id,
                   all_adds, xml_diff, output_xml, output>>

\* line 198: all_adds = merge_master_adds_and_new_adds(filtered, new_constraints)
Merge ==
    /\ pc = "merge"
    /\ IF merge_master_adds_and_new_adds_raises(filtered, new_constraints)
       THEN /\ pc' = "aborted"
            /\ error' = "KeyError"
            /\ UNCHANGED all_adds
       ELSE /\ pc' = After("rename")
            /\ all_adds' = merge_master_adds_and_new_adds(filtered, new_constraints)
            /\ UNCHANGED error
    /\ UNCHANGED <<entry, adds, drops, new_constraints, properties, change_id,
                   filtered, xml_diff, output_xml, output>>

\* the exception of the first failing call of the comprehension of line 199
comprehension_error(pairs) ==
    LET failing == {i \in DOMAIN pairs :
                       adds_to_add_drop_constraints_error(pairs[i][1], pairs[i][2]) # "none"}
        first == CHOOSE i \in failing : \A j \in failing : i <= j
    IN  IF failing = {}
        THEN "none"
        ELSE adds_to_add_drop_constraints_error(pairs[first][1], pairs[first][2])

\* line 199: xml_diff = [adds_to_add_drop_constraints(master, new) for ... in all_adds]
Rename ==
    /\ pc = "rename"
    /\ IF comprehension_error(all_adds) # "none"
       THEN /\ pc' = "aborted"
            /\ error' = comprehension_error(all_adds)
            /\ UNCHANGED xml_diff
       ELSE /\ pc' = After("build")
            /\ xml_diff' = [i \in DOMAIN all_adds |->
                               adds_to_add_drop_constraints(all_adds[i][1], all_adds[i][2])]
            /\ UNCHANGED error
    /\ UNCHANGED <<entry, adds, drops, new_constraints, properties, change_id,
                   filtered, all_adds, output_xml, output>>

\* line 203: output_xml = add_and_removes_to_changelog_xml(xml_diff, properties, id)
Build ==
    /\ pc = "build"
    /\ pc' = After("write")
    /\ output_xml' = <<add_and_removes_to_changelog_xml(xml_diff, properties, change_id)>>
    /\ UNCHANGED <<entry, adds, drops, new_constraints, properties, change_id,
                   filtered, all_adds, xml_diff, output, error>>

\* lines 204-209: the document is serialised and written to args.output
Write ==
    /\ pc = "write"
    /\ pc' = "done"
    /\ output' = output \o output_xml
    /\ UNCHANGED <<entry, adds, drops, new_constraints, properties, change_id,
                   filtered, all_adds, xml_diff, output_xml, error>>

Next == Filter \/ Merge \/ Rename \/ Build \/ Write

(***************************************************************************)
(* Initial states: the parsed inputs (lines 186-193), nothing computed     *)
(***************************************************************************)
InitMain(Additions, NewAdditions, Drops, Props) ==
    /\ entry = "main"
    /\ pc = "filter"
    /\ adds \in BSeq(Additions, MaxAdds)
    /\ drops \in BSeq(Drops, MaxDrops)
    /\ new_constraints \in BSeq(NewAdditions, MaxNew)
    /\ properties \in BSeq(Props, MaxProps)
    /\ change_id \in ChangeIds
    /\ filtered = <<>> /\ all_adds = <<>> /\ xml_diff = <<>>
    /\ output_xml = <<>> /\ output = <<>> /\ error = "none"

Addition(columns, name, table) ==
    [columnNames |-> columns, constraintName |-> name, tableName |-> table]

\* master additions of the script's runs: a constraint under its old name, the
\* same on other columns, on another table, and already under the new name
MainAdditions ==
    {Addition("uuid, vlan", "devicejpa_uuid_key", "devicejpa"),
     Addition("uuid,vlan", "devicejpa_uuid_key", "devicejpa"),
     Addition("uuid, vlan", "devicejpa_uuid_key", "gatewayjpa"),
     Addition("uuid, vlan", "uk_2o0nn8nq8", "devicejpa")}

\* branch additions of the script's runs
MainNewAdditions ==
    {Addition("uuid, vlan", "uk_2o0nn8nq8", "devicejpa"),
     Addition("uuid,vlan", "uk_2o0nn8nq8", "devicejpa"),
     Addition("uuid, vlan", "uk_2o0nn8nq8", "gatewayjpa"),
     Addition("uuid, vlan", "devicejpa_uuid_key", "devicejpa")}

MainDrops == [constraintName: ConstraintNames, tableName: {"devicejpa"}]

MainProperties == [name: {"p1"}, value: {"v"}]

Init == InitMain(MainAdditions, MainNewAdditions, MainDrops, MainProperties)

Spec == Init /\ [][Next]_vars

\* runs of the script on inputs with records that lack an attribute
InitMalformed ==
    InitMain({Addition("uuid, vlan", "devicejpa_uuid_key", "devicejpa")}
                 \cup MalformedAdditions,
             {Addition("uuid, vlan", "uk_2o0nn8nq8", "devicejpa")}
                 \cup MalformedAdditions,
             {[constraintName |-> "devicejpa_uuid_key", tableName |-> "devicejpa"]}
                 \cup MalformedDrops,
             MainProperties)

SpecMalformed == InitMalformed /\ [][Next]_vars

(***************************************************************************)
(* Direct calls of one function, as the doctests make them (lines 76-90,   *)
(* 116-122), on arguments drawn from the alphabets                         *)
(***************************************************************************)
FilterAdditions ==
    {a \in PlainAdditions : a.columnNames = "uuid, vlan"}
    \cup {a \in FlaggedAdditions : a.deferrable = "true" /\ a.initiallyDeferred = "false"}

InitFilter ==
    /\ entry = "remove_dropped_adds"
    /\ pc = "filter"
    /\ adds \in BSeq(FilterAdditions, MaxLen)
    /\ drops \in BSeq(PlainDrops \cup SchemaDrops, MaxLen)
    /\ new_constraints = <<>> /\ properties = <<>>
    /\ change_id \in ChangeIds
    /\ filtered = <<>> /\ all_adds = <<>> /\ xml_diff = <<>>
    /\ output_xml = <<>> /\ output = <<>> /\ error = "none"

SpecFilter == InitFilter /\ [][Filter]_vars

MergeAdditions ==
    {a \in PlainAdditions : ~(a.tableName = "gatewayjpa" /\ a.columnNames = "uuid,vlan")}

InitMerge ==
    /\ entry = "merge_master_adds_and_new_adds"
    /\ pc = "merge"
    /\ filtered \in BSeq(MergeAdditions, MaxLen)
    /\ new_constraints \in BSeq(MergeAdditions, MaxLen)
    /\ adds = <<>> /\ drops = <<>> /\ properties = <<>>
    /\ change_id \in ChangeIds
    /\ all_adds = <<>> /\ xml_diff = <<>>
    /\ output_xml = <<>> /\ output = <<>> /\ error = "none"

SpecMerge == InitMerge /\ [][Merge]_vars

RenameAdditions == PlainAdditions \cup FlaggedAdditions \cup MalformedAdditions

InitRename ==
    /\ entry = "adds_to_add_drop_constraints"
    /\ pc = "rename"
    /\ all_adds \in {<<<<master, new>>>> : master \in RenameAdditions, new \in RenameAdditions}
    /\ adds = <<>> /\ drops = <<>> /\ new_constraints = <<>> /\ properties = <<>>
    /\ change_id \in ChangeIds
    /\ filtered = <<>> /\ xml_diff = <<>>
    /\ output_xml = <<>> /\ output = <<>> /\ error = "none"

SpecRename == InitRename /\ [][Rename]_vars

\* the script's runs and the direct calls of adds_to_add_drop_constraints
SpecAssert == (Init \/ InitRename) /\ [][Next]_vars

BuildPairs ==
    {<<drop, add>> : drop \in [constraintName: {"devicejpa_uuid_key"}, tableName: TableNames],
                     add \in {a \in FlaggedAdditions :
                                 a.constraintName = "uk_2o0nn8nq8" /\ a.deferrable = "false"}}

InitBuild ==
    /\ entry = "add_and_removes_to_changelog_xml"
    /\ pc = "build"
    /\ xml_diff \in BSeq(BuildPairs, MaxLen)
    /\ properties \in BSeq(PropertyRecords, MaxLen)
    /\ change_id \in ChangeIds
    /\ adds = <<>> /\ drops = <<>> /\ new_constraints = <<>>
    /\ filtered = <<>> /\ all_adds = <<>>
    /\ output_xml = <<>> /\ output = <<>> /\ error = "none"

SpecBuild == InitBuild /\ [][Build]_vars

(***************************************************************************)
(* Vocabulary of the properties                                            *)
(***************************************************************************)
Flags == {"deferrable", "disabled", "initiallyDeferred"}

WellFormedAddition(a) == Required \subseteq DOMAIN a
WellFormedDrop(d) == DropRequired \subseteq DOMAIN d

\* the positions of a list that hold the value x
Positions(x, list) == {i \in DOMAIN list : list[i] = x}

Range(list) == {list[i] : i \in DOMAIN list}

\* drop D has the (tableName, constraintName) key of addition A
SameKey(A, D) ==
    /\ WellFormedDrop(D)
    /\ D["tableName"] = A["tableName"]
    /\ D["constraintName"] = A["constraintName"]

\* master m and new n agree on table and columns and differ in name
Matches(m, n) ==
    /\ m["tableName"] = n["tableName"]
    /\ m["columnNames"] = n["columnNames"]
    /\ m["constraintName"] # n["constraintName"]

(***************************************************************************)
(* C1. remove_dropped_adds returns exactly the additions whose             *)
(* (tableName, constraintName) key no drop has, unchanged and in their     *)
(* order, whatever other attributes the additions and the drops carry.     *)
(* Stated as the claim states it; the code compares the whole drop record. *)
(***************************************************************************)
C1_FilterByKey ==
    (entry = "remove_dropped_adds" /\ pc = "returned") =>
        LET retained(A) == ~\E i \in DOMAIN drops : SameKey(A, drops[i])
        IN  filtered = SelectSeq(adds, retained)

(***************************************************************************)
(* C9. remove_dropped_adds is idempotent: applied to its own result with   *)
(* the same drops it returns that result, element for element.             *)
(***************************************************************************)
C9_FilterIdempotent ==
    (entry = "remove_dropped_adds" /\ pc = "returned") =>
        /\ ~remove_dropped_adds_raises(filtered, drops)
        /\ remove_dropped_adds(filtered, drops) = filtered

\* a call that removed one addition and kept another
C9_Witness ==
    /\ entry = "remove_dropped_adds" /\ pc = "returned"
    /\ Len(adds) = 2 /\ Len(filtered) = 1
    /\ adds[1] # filtered[1]

(***************************************************************************)
(* C2. merge_master_adds_and_new_adds yields the pair (m, n) if and only   *)
(* if m and n agree on tableName and columnNames and differ in             *)
(* constraintName: one pair per combination of list positions that match,  *)
(* no pair for a combination that does not.                                *)
(***************************************************************************)
C2_MatchByTableAndColumns ==
    (entry = "merge_master_adds_and_new_adds" /\ pc = "returned") =>
        /\ \A k \in DOMAIN all_adds : Matches(all_adds[k][1], all_adds[k][2])
        /\ Len(all_adds) =
               Cardinality({ij \in (DOMAIN filtered) \X (DOMAIN new_constraints) :
                               Matches(filtered[ij[1]], new_constraints[ij[2]])})
        /\ \A m \in Range(filtered) : \A n \in Range(new_constraints) :
               Cardinality(Positions(<<m, n>>, all_adds)) =
                   IF Matches(m, n)
                   THEN Cardinality(Positions(m, filtered))
                            * Cardinality(Positions(n, new_constraints))
                   ELSE 0

\* one master yielded with two new additions, another combination not yielded
C2_Witness ==
    /\ entry = "merge_master_adds_and_new_adds" /\ pc = "returned"
    /\ Len(filtered) = 2 /\ Len(new_constraints) = 2
    /\ Len(all_adds) = 2
    /\ all_adds[1][1] = all_adds[2][1]
    /\ new_constraints[1] # new_constraints[2]

(***************************************************************************)
(* C3. adds_to_add_drop_constraints(master, new), for master and new with  *)
(* equal tableName and columnNames, returns the drop {constraintName:      *)
(* master's, tableName: master's} and the add {columnNames: master's,      *)
(* constraintName: new's, tableName: master's} with deferrable, disabled   *)
(* and initiallyDeferred all "false", whatever the flags of master and new.*)
(***************************************************************************)
C3_ComputeRename ==
    (entry = "adds_to_add_drop_constraints" /\ pc # "rename") =>
        LET master == all_adds[1][1]
            new == all_adds[1][2]
        IN  (/\ WellFormedAddition(master) /\ WellFormedAddition(new)
             /\ master["tableName"] = new["tableName"]
             /\ master["columnNames"] = new["columnNames"]) =>
                /\ pc = "returned" /\ error = "none"
                /\ Len(xml_diff) = 1
                /\ LET drop == xml_diff[1][1]
                       add == xml_diff[1][2]
                   IN  /\ DOMAIN drop = DropRequired
                       /\ drop["constraintName"] = master["constraintName"]
                       /\ drop["tableName"] = master["tableName"]
                       /\ DOMAIN add = Required \cup Flags
                       /\ add["columnNames"] = master["columnNames"]
                       /\ add["constraintName"] = new["constraintName"]
                       /\ add["tableName"] = master["tableName"]
                       /\ \A flag \in Flags : add[flag] = "false"

\* a rename of a master whose flags are "true" by a new addition without flags
C3_Witness ==
    /\ entry = "adds_to_add_drop_constraints" /\ pc = "returned"
    /\ Has(all_adds[1][1], "deferrable") /\ all_adds[1][1]["deferrable"] = "true"
    /\ ~Has(all_adds[1][2], "deferrable")
    /\ xml_diff[1][2]["deferrable"] = "false"

(***************************************************************************)
(* C4, as stated: the add of a rename carries the new constraint name and  *)
(* the master's columnNames and the master's deferrable, disabled and      *)
(* initiallyDeferred values, carried through unchanged.                    *)
(***************************************************************************)
C4_FlagsCarriedThrough ==
    (entry = "adds_to_add_drop_constraints" /\ pc = "returned") =>
        LET master == all_adds[1][1]
            new == all_adds[1][2]
            add == xml_diff[1][2]
        IN  /\ add["constraintName"] = new["constraintName"]
            /\ add["columnNames"] = master["columnNames"]
            /\ \A flag \in Flags : Has(master, flag) => add[flag] = master[flag]

(***************************************************************************)
(* C4, amended: the add of a rename carries the new constraint name and    *)
(* the master's columnNames and tableName; its deferrable, disabled and    *)
(* initiallyDeferred are not carried through: each is "false", so it is    *)
(* the master's value only where the master's value is "false".            *)
(***************************************************************************)
C4_FlagsReset ==
    (entry = "adds_to_add_drop_constraints" /\ pc = "returned") =>
        LET master == all_adds[1][1]
            new == all_adds[1][2]
            add == xml_diff[1][2]
        IN  /\ add["constraintName"] = new["constraintName"]
            /\ add["columnNames"] = master["columnNames"]
            /\ add["tableName"] = master["tableName"]
            /\ \A flag \in Flags :
                   /\ Has(add, flag)
                   /\ Has(master, flag) =>
                          (add[flag] = master[flag] <=> master[flag] = "false")

\* a rename whose master has one flag "true" and one flag "false", and whose
\* new addition has another name
C4_Witness ==
    /\ entry = "adds_to_add_drop_constraints" /\ pc = "returned"
    /\ Has(all_adds[1][1], "disabled") /\ all_adds[1][1]["disabled"] = "true"
    /\ all_adds[1][1]["initiallyDeferred"] = "false"
    /\ all_adds[1][1]["constraintName"] # all_adds[1][2]["constraintName"]
    /\ xml_diff[1][2]["disabled"] = "false"

(***************************************************************************)
(* C5. Every rename pair (drop, add) the script computes has               *)
(* drop.tableName = add.tableName, add.columnNames equal to the            *)
(* columnNames of the matched master and of the matched new addition, and  *)
(* drop.constraintName # add.constraintName.                               *)
(***************************************************************************)
C5_RenamePairInvariant ==
    (entry = "main" /\ pc \in {"build", "write", "done"}) =>
        /\ Len(xml_diff) = Len(all_adds)
        /\ \A k \in DOMAIN xml_diff :
               LET drop == xml_diff[k][1]
                   add == xml_diff[k][2]
                   master == all_adds[k][1]
                   new == all_adds[k][2]
               IN  /\ drop["tableName"] = add["tableName"]
                   /\ add["columnNames"] = master["columnNames"]
                   /\ add["columnNames"] = new["columnNames"]
                   /\ drop["constraintName"] # add["constraintName"]

\* a finished run that emitted a pair, from masters of which a drop removed one
C5_Witness ==
    /\ entry = "main" /\ pc = "done"
    /\ Len(xml_diff) >= 1
    /\ Len(filtered) < Len(adds)
    /\ Len(all_adds) < Len(filtered) * Len(new_constraints)

(***************************************************************************)
(* C6. The document add_and_removes_to_changelog_xml builds holds the      *)
(* properties in input order, then the one changeSet; the changeSet holds  *)
(* the comment, then for each pair in input order its drop immediately     *)
(* followed by its add, then the modifySql WITH -> WITHOUT directive       *)
(* exactly once and last, also for no pairs.                               *)
(***************************************************************************)
C6_ChangelogOrder ==
    (entry = "add_and_removes_to_changelog_xml" /\ pc = "returned") =>
        LET doc == output_xml[1]
            np == Len(properties)
            n == Len(xml_diff)
            change_set == doc.children[np + 1]
            ops == change_set.children
        IN  /\ Len(output_xml) = 1
            /\ doc.tag = "databaseChangeLog"
            /\ Len(doc.children) = np + 1
            /\ \A i \in 1..np : /\ doc.children[i].tag = "property"
                                /\ doc.children[i].attrib = properties[i]
            /\ change_set.tag = "changeSet"
            /\ change_set.attrib["id"] = change_id
            /\ Len(ops) = 2 * n + 2
            /\ ops[1].tag = "comment"
            /\ \A k \in 1..n :
                   /\ ops[2 * k].tag = "dropUniqueConstraint"
                   /\ ops[2 * k].attrib = xml_diff[k][1]
                   /\ ops[2 * k + 1].tag = "addUniqueConstraint"
                   /\ ops[2 * k + 1].attrib = xml_diff[k][2]
            /\ {i \in DOMAIN ops : ops[i].tag = "modifySql"} = {2 * n + 2}
            /\ ops[2 * n + 2].attrib = [dbms |-> "postgresql"]
            /\ Len(ops[2 * n + 2].children) = 1
            /\ ops[2 * n + 2].children[1].tag = "replace"
            /\ ops[2 * n + 2].children[1].attrib = [replace |-> "WITH", with |-> "WITHOUT"]

\* a document built from two different pairs and two different properties
C6_Witness ==
    /\ entry = "add_and_removes_to_changelog_xml" /\ pc = "returned"
    /\ Len(xml_diff) = 2 /\ xml_diff[1] # xml_diff[2]
    /\ Len(properties) = 2 /\ properties[1] # properties[2]
    /\ Len(output_xml) = 1

(***************************************************************************)
(* C7. A run with a malformed input record (a master addition, a new       *)
(* addition or a drop lacking a required attribute) aborts and writes no   *)
(* changelog: a changelog is written only if every record is well formed.  *)
(* Stated as the claim states it.                                          *)
(***************************************************************************)
AllWellFormed ==
    /\ \A i \in DOMAIN adds : WellFormedAddition(adds[i])
    /\ \A i \in DOMAIN new_constraints : WellFormedAddition(new_constraints[i])
    /\ \A i \in DOMAIN drops : WellFormedDrop(drops[i])

C7_MalformedAborts ==
    (entry = "main" /\ ~AllWellFormed) =>
        /\ pc \notin {"build", "write", "done"}
        /\ output = <<>>

(***************************************************************************)
(* C8. In the script the asserts of adds_to_add_drop_constraints never     *)
(* fail: every pair merge_master_adds_and_new_adds passes on has equal     *)
(* columnNames and tableName. Called directly with a pair of additions     *)
(* that differ in columnNames or tableName, it raises AssertionError and   *)
(* returns no (drop, add) pair.                                            *)
(***************************************************************************)
C8_AssertNeverFailsInPipeline ==
    /\ entry = "main" =>
           /\ error # "AssertionError"
           /\ pc \in {"rename", "build", "write", "done"} =>
                  \A k \in DOMAIN all_adds :
                      /\ all_adds[k][1]["columnNames"] = all_adds[k][2]["columnNames"]
                      /\ all_adds[k][1]["tableName"] = all_adds[k][2]["tableName"]
    /\ (entry = "adds_to_add_drop_constraints" /\ pc # "rename") =>
           LET master == all_adds[1][1]
               new == all_adds[1][2]
           IN  (/\ WellFormedAddition(master) /\ WellFormedAddition(new)
                /\ \/ master["columnNames"] # new["columnNames"]
                   \/ master["tableName"] # new["tableName"]) =>
                   /\ pc = "aborted"
                   /\ error = "AssertionError"
                   /\ xml_diff = <<>>

\* a run of the script that renamed a pair and left other combinations out
C8_Witness ==
    /\ entry = "main" /\ pc = "build"
    /\ Len(xml_diff) >= 1
    /\ \E i \in DOMAIN filtered : \E j \in DOMAIN new_constraints :
           filtered[i]["columnNames"] # new_constraints[j]["columnNames"]
    /\ \E i \in DOMAIN filtered : \E j \in DOMAIN new_constraints :
           filtered[i]["tableName"] # new_constraints[j]["tableName"]

(***************************************************************************)
(* C10. If no two new additions share (tableName, columnNames) and no two  *)
(* master additions that survive the filter do, the script computes at     *)
(* most one pair per master addition and at most one per new addition. In  *)
(* every run the pairs of one master addition are as many as the new       *)
(* additions that match it. ("Master addition" and "new addition" are the  *)
(* records of the lists: two additions that declare one constraint name on *)
(* different columns are two additions.)                                   *)
(***************************************************************************)
TableAndColumns(a) == <<a["tableName"], a["columnNames"]>>

UniqueTableAndColumns(list) ==
    \A i \in DOMAIN list : \A j \in DOMAIN list :
        i # j => TableAndColumns(list[i]) # TableAndColumns(list[j])

====
